---- MODULE Spec2Model ----
(***************************************************************************)
(* Model of the ReadingDaily scripture pipeline: the USCCB scraper         *)
(* (scrapers/usccb_scraper.py), the validator and checksum calculator      *)
(* (scrapers/validator.py) and the two entry points that write to the      *)
(* 'readings' collection (main.py manual_scrape, populate_readings.py).    *)
(*                                                                         *)
(* Python values are tagged tuples: <<"none">>, <<"str", s>>,              *)
(* <<"int", n>>, <<"bool", b>>, <<"bytes", s>>, <<"dict", f>> with f a     *)
(* function from key strings to values.  A reading (the top-level dict)    *)
(* is such a function f itself; a key that is absent from a dict is        *)
(* absent from DOMAIN f.                                                   *)
(***************************************************************************)
EXTENDS Integers, Sequences, FiniteSets, TLC

VARIABLES phase, call, store, popIdx

vars == <<phase, call, store, popIdx>>

(***************************************************************************)
(* Python values                                                           *)
(***************************************************************************)
PyNone == <<"none">>

PyStr(s) == <<"str", s>>

PyInt(n) == <<"int", n>>

PyBytes(s) == <<"bytes", s>>

PyDict(f) == <<"dict", f>>

PyBool(b) == <<"bool", b>>

Tag(v) == v[1]

IsDict(v) == Tag(v) = "dict"

IsStr(v) == Tag(v) = "str"

EmptyDict == [k \in {} |-> PyNone]

\* Python truth value: None, 0, "", b"" and {} are falsy.
Truthy(v) ==
    CASE Tag(v) = "none" -> FALSE
      [] Tag(v) = "str" -> v[2] # ""
      [] Tag(v) = "bytes" -> v[2] # ""
      [] Tag(v) = "int" -> v[2] # 0
      [] Tag(v) = "bool" -> v[2]
      [] Tag(v) = "dict" -> DOMAIN v[2] # {}

\* len(v) raises TypeError for None and int.
LenRaises(v) == Tag(v) \in {"none", "int", "bool"}

PyLen(v) ==
    CASE Tag(v) \in {"str", "bytes"} -> Len(v[2])
      [] Tag(v) = "dict" -> Cardinality(DOMAIN v[2])
      [] OTHER -> 0

\* `key in v` with a str key raises TypeError for None, int and bytes.
InRaises(v) == Tag(v) \in {"none", "int", "bool", "bytes"}

\* `key in v`: membership for a dict.  For a str it is a substring test; no
\* string of the model holds a field name as a substring.
PyIn(key, v) == IF IsDict(v) THEN key \in DOMAIN v[2] ELSE FALSE

\* d.get(key): None when the key is absent.
Get(d, key) == IF key \in DOMAIN d THEN d[key] ELSE PyNone

With(d, key, v) == [k \in DOMAIN d \cup {key} |-> IF k = key THEN v ELSE d[k]]

Without(d, key) == [k \in DOMAIN d \ {key} |-> d[k]]

\* F applied to the value of x, which is computed once.
ByValue(F(_), x) == CHOOSE r \in { F(v) : v \in {x} } : TRUE

\* The concatenation of a sequence of sequences (by halves, to keep the
\* recursion shallow).
RECURSIVE Concat(_)
Concat(ss) ==
    IF ss = <<>> THEN <<>>
    ELSE IF Len(ss) = 1 THEN ss[1]
    ELSE LET h == Len(ss) \div 2 IN
         Concat(SubSeq(ss, 1, h)) \o Concat(SubSeq(ss, h + 1, Len(ss)))

(***************************************************************************)
(* validator.py                                                            *)
(***************************************************************************)
MinTextLen == 50

TopRequired == <<"date", "liturgicalDate", "firstReading", "gospel", "metadata">>

SectionRequired == <<"reference", "citation", "text", "title">>

Returned(errs) == [raised |-> FALSE, errors |-> errs]

Raised == [raised |-> TRUE, errors |-> <<>>]

\* The loop of validate_reading_section over its required fields.
SectionFieldErrors(d, name) ==
    Concat([i \in 1..Len(SectionRequired) |->
        LET field == SectionRequired[i] IN
        IF field \notin DOMAIN d
            THEN <<name \o ": Missing field '" \o field \o "'">>
        ELSE IF ~Truthy(d[field])
            THEN <<name \o ": Field '" \o field \o "' is empty">>
        ELSE <<>>])

TooShortMutant(n) == n <= MinTextLen

\* len(text) < 50
TooShort(n) == n < MinTextLen

SectionTextErrors(d, name) ==
    IF "text" \in DOMAIN d /\ TooShort(PyLen(d["text"]))
        THEN <<name \o ": Text too short (" \o ToString(PyLen(d["text"])) \o " chars)">>
        ELSE <<>>

\* validate_reading_section(section, name): the errors, or a raised TypeError
\* (`field not in section` on a non-container, len() of None or of an int).
validate_reading_section(section, name) ==
    IF InRaises(section) THEN Raised
    ELSE IF ~IsDict(section)
        THEN Returned([i \in 1..Len(SectionRequired) |->
                 name \o ": Missing field '" \o SectionRequired[i] \o "'"])
    ELSE LET d == section[2] IN
         IF "text" \in DOMAIN d /\ LenRaises(d["text"]) THEN Raised
         ELSE Returned(SectionFieldErrors(d, name) \o SectionTextErrors(d, name))

validate_psalm_section(section) ==
    LET base == validate_reading_section(section, "Psalm") IN
    IF base.raised THEN Raised
    ELSE Returned(base.errors \o
            (IF ~PyIn("response", section) THEN <<"Psalm: Missing 'response' field">>
             ELSE IF ~Truthy(section[2]["response"]) THEN <<"Psalm: Response is empty">>
             ELSE <<>>))

MissingFieldErrors(reading) ==
    Concat([i \in 1..Len(TopRequired) |->
        IF TopRequired[i] \notin DOMAIN reading
            THEN <<"Missing required field: " \o TopRequired[i]>>
            ELSE <<>>])

DateErrors(reading) ==
    IF "date" \in DOMAIN reading
       /\ (~IsStr(reading["date"]) \/ PyLen(reading["date"]) # 10)
        THEN <<"Invalid date format (expected YYYY-MM-DD)">>
        ELSE <<>>

Present(reading, key) == key \in DOMAIN reading /\ Truthy(reading[key])

FirstReadingPart(reading) ==
    IF Present(reading, "firstReading")
        THEN validate_reading_section(reading["firstReading"], "First Reading")
        ELSE Returned(<<>>)

GospelMissing == "Gospel reading is required but missing"

GospelPart(reading) ==
    IF Present(reading, "gospel")
        THEN validate_reading_section(reading["gospel"], "Gospel")
        ELSE Returned(<<GospelMissing>>)

PsalmPart(reading) ==
    IF Present(reading, "psalm")
        THEN validate_psalm_section(reading["psalm"])
        ELSE Returned(<<>>)

SecondReadingPart(reading) ==
    IF Present(reading, "secondReading")
        THEN validate_reading_section(reading["secondReading"], "Second Reading")
        ELSE Returned(<<>>)

LiturgicalErrors(reading) ==
    IF "liturgicalDate" \notin DOMAIN reading THEN <<>>
    ELSE LET liturgical == reading["liturgicalDate"] IN
         IF ~IsDict(liturgical) THEN <<"liturgicalDate must be an object">>
         ELSE (IF "season" \notin DOMAIN liturgical[2]
                  THEN <<"liturgicalDate missing season">> ELSE <<>>)
              \o (IF "dayOfWeek" \notin DOMAIN liturgical[2]
                  THEN <<"liturgicalDate missing dayOfWeek">> ELSE <<>>)

\* The section checks of validate_reading in the order the code runs them.
SectionParts(reading) ==
    <<FirstReadingPart(reading), GospelPart(reading),
      PsalmPart(reading), SecondReadingPart(reading)>>

\* validate_reading(reading): (valid, errors), or a raised exception when a
\* section check raises (nothing in validate_reading catches it).
validate_reading(reading) ==
    LET parts == SectionParts(reading) IN
    IF \E i \in 1..Len(parts) : parts[i].raised
        THEN [raised |-> TRUE, valid |-> FALSE, errors |-> <<>>]
        ELSE LET errors == MissingFieldErrors(reading) \o DateErrors(reading)
                           \o Concat([i \in 1..Len(parts) |-> parts[i].errors])
                           \o LiturgicalErrors(reading)
             IN [raised |-> FALSE, valid |-> Len(errors) = 0, errors |-> errors]

(***************************************************************************)
(* validator.py: calculate_checksum, verify_checksum                       *)
(***************************************************************************)
\* Every key of the model in the order sort_keys=True puts them.
SortedKeys ==
    <<"audioUrl", "checksum", "citation", "color", "date", "dayOfWeek",
      "feastDay", "firstReading", "gospel", "liturgicalDate",
      "liturgicalTitle", "manualTrigger", "metadata", "psalm", "reference",
      "response", "scrapedAt", "season", "secondReading", "source",
      "sourceUrl", "text", "title", "validated", "version">>

\* The keys in the order the code inserts them (scrape, _extract_reading,
\* _extract_psalm, manual_scrape), which is the order str(dict) prints them.
InsertionKeys ==
    <<"date", "liturgicalDate", "firstReading", "psalm", "secondReading",
      "gospel", "metadata", "season", "dayOfWeek", "feastDay",
      "liturgicalTitle", "color", "reference", "citation", "text",
      "response", "title", "audioUrl", "scrapedAt", "source", "sourceUrl",
      "checksum", "validated", "version", "manualTrigger">>

\* json.dumps raises TypeError on bytes, at any depth.
RECURSIVE JsonFails(_)
JsonFails(v) ==
    \/ Tag(v) = "bytes"
    \/ IsDict(v) /\ \E k \in DOMAIN v[2] : JsonFails(v[2][k])

\* The output of json.dumps(v, sort_keys=True, ensure_ascii=False) as its
\* sequence of tokens; a string literal is one token (ensure_ascii=False and
\* JSON escaping map distinct strings to distinct literals).
RECURSIVE JsonTokens(_)
JsonTokens(v) ==
    CASE Tag(v) = "none" -> << <<"null">> >>
      [] Tag(v) = "str" -> << <<"string", v[2]>> >>
      [] Tag(v) = "int" -> << <<"number", v[2]>> >>
      [] Tag(v) = "bool" -> << <<"bool", v[2]>> >>
      [] Tag(v) = "dict" ->
            << <<"{">> >>
            \o Concat([i \in 1..Len(SortedKeys) |->
                  IF SortedKeys[i] \in DOMAIN v[2]
                     THEN << <<"key", SortedKeys[i]>> >> \o JsonTokens(v[2][SortedKeys[i]])
                     ELSE <<>>])
            \o << <<"}">> >>
      [] OTHER -> <<>>

\* str(v) as its sequence of tokens: every key and value of v, bytes included.
RECURSIVE ReprTokens(_)
ReprTokens(v) ==
    IF IsDict(v)
       THEN << <<"{">> >>
            \o Concat([i \in 1..Len(InsertionKeys) |->
                  IF InsertionKeys[i] \in DOMAIN v[2]
                     THEN << <<"key", InsertionKeys[i]>> >> \o ReprTokens(v[2][InsertionKeys[i]])
                     ELSE <<>>])
            \o << <<"}">> >>
       ELSE << v >>

\* hashlib.md5(...).hexdigest(): the digest is taken to be injective on the
\* strings of the model, so it is the hashed string itself, tagged.
Md5(kind, tokens) == <<"md5", kind, tokens>>

ContentKeys == <<"date", "firstReading", "psalm", "secondReading", "gospel">>

ContentKeysWithMetadata ==
    <<"date", "firstReading", "psalm", "secondReading", "gospel", "metadata">>

ContentKeysWithoutGospel == <<"date", "firstReading", "psalm", "secondReading">>

\* The `content` dict of calculate_checksum over the given keys.
ContentOf(reading, keys) ==
    PyDict([k \in {keys[i] : i \in 1..Len(keys)} |-> Get(reading, k)])

ChecksumOver(reading, keys) ==
    IF JsonFails(ContentOf(reading, keys))
       THEN Md5("str", ReprTokens(PyDict(reading)))
       ELSE Md5("json", JsonTokens(ContentOf(reading, keys)))

calculate_checksum_with_metadata(reading) == ChecksumOver(reading, ContentKeysWithMetadata)

calculate_checksum_without_gospel(reading) == ChecksumOver(reading, ContentKeysWithoutGospel)

\* calculate_checksum(reading): the digest of the canonical JSON of the content
\* fields, or of str(reading) when json.dumps raises.
calculate_checksum(reading) == ChecksumOver(reading, ContentKeys)

verify_checksum(reading, expected_checksum) ==
    calculate_checksum(reading) = expected_checksum

\* The form of what hexdigest() returns, on the canonical and on the fallback
\* path alike: a str of 32 hexadecimal digits.
DigestForm(checksum) == [type |-> "str", length |-> 32, alphabet |-> "0123456789abcdef"]

\* The log records calculate_checksum emits for a record: none on either
\* path, the except branch returns the fallback digest and nothing else.
ChecksumLog(reading) == <<>>

(***************************************************************************)
(* The candidate records handed to the validator and the checksum          *)
(* calculator: a complete record and every record that departs from it in  *)
(* at most MaxDefects top-level fields.                                    *)
(***************************************************************************)
MaxDefects == 2

Text49 == "Jesus said to his disciples: Ask and it will be g"

Text50 == "Jesus said to his disciples: Ask and it will be gi"

TextFirst == "In the month Nisan of the twentieth year of King Artaxerxes, when the wine was in my charge, I took some and offered it to the king."

TextSecond == "Brothers and sisters: I consider that the sufferings of this present time are as nothing compared with the glory to be revealed for us."

TextGospel == "As they were proceeding on their journey someone said to him, I will follow you wherever you go."

TextPsalm == "How could we sing a song of the LORD in a foreign land? If I forget you, Jerusalem, may my right hand be forgotten!"

TextResponse == "R. Let my tongue be silenced, if I ever forget you!"

\* A section as _extract_reading builds it.
Section(citation, text, title) ==
    PyDict([reference |-> PyStr(citation), citation |-> PyStr(citation),
            text |-> PyStr(text), title |-> PyStr(title), audioUrl |-> PyNone])

\* A psalm section as _extract_psalm builds it.
PsalmSection(citation, text, response) ==
    PyDict([reference |-> PyStr(citation), citation |-> PyStr(citation),
            text |-> PyStr(text), response |-> PyStr(response),
            title |-> PyStr("Responsorial Psalm"), audioUrl |-> PyNone])

SourceMetadata(url) == PyDict([source |-> PyStr("USCCB"), sourceUrl |-> PyStr(url)])

GoodLiturgical ==
    PyDict([season |-> PyStr("Ordinary Time"), dayOfWeek |-> PyStr("Wednesday"),
            feastDay |-> PyNone,
            liturgicalTitle |-> PyStr("Wednesday of the Twenty-sixth Week in Ordinary Time"),
            color |-> PyStr("green")])

GoodFirst == Section("Neh 2:1-8", TextFirst, "First Reading")

GoodGospel == Section("Luke 9:57-62", TextGospel, "Gospel")

GoodSecond == Section("Rom 8:18-23", TextSecond, "Second Reading")

GoodPsalm == PsalmSection("Ps 137:1-6", TextPsalm \o "\n\n" \o TextResponse, TextResponse)

GoodRecord ==
    [date |-> PyStr("2025-10-01"), liturgicalDate |-> GoodLiturgical,
     firstReading |-> GoodFirst, psalm |-> GoodPsalm, secondReading |-> GoodSecond,
     gospel |-> GoodGospel,
     metadata |-> SourceMetadata("https://bible.usccb.org/bible/readings/100125.cfm")]

Absent == <<"absent">>

\* What a reading section may hold instead of a well-formed section.
SectionAlternatives(good) ==
    { Absent, PyNone, PyDict(EmptyDict), PyInt(5),
      PyDict(With(good[2], "text", PyStr(Text49))),
      PyDict(With(good[2], "text", PyStr(Text50))),
      PyDict(With(good[2], "text", PyStr(""))),
      PyDict(With(good[2], "text", PyNone)),
      PyDict(With(good[2], "citation", PyStr(""))),
      PyDict(Without(good[2], "title")),
      PyDict(With(good[2], "reference", PyBytes("Lk 9"))) }

Alternatives(key) ==
    CASE key = "date" ->
            { Absent, PyStr("2025-10-1"), PyInt(20251001), PyStr("9999-99-99") }
      [] key = "liturgicalDate" ->
            { Absent, PyNone, PyStr("Lent"),
              PyDict(Without(GoodLiturgical[2], "season")),
              PyDict(Without(GoodLiturgical[2], "dayOfWeek")) }
      [] key = "firstReading" -> SectionAlternatives(GoodFirst)
      [] key = "gospel" -> SectionAlternatives(GoodGospel)
      [] key = "secondReading" -> SectionAlternatives(GoodSecond)
      [] key = "psalm" ->
            { Absent, PyNone,
              PyDict(Without(GoodPsalm[2], "response")),
              PyDict(With(GoodPsalm[2], "response", PyStr(""))),
              PyDict(With(GoodPsalm[2], "text", PyStr(Text49))),
              PyDict(With(GoodPsalm[2], "text", PyInt(0))) }
      [] key = "metadata" ->
            { Absent, SourceMetadata("https://example.org/mirror/100125") }

RecordKeys ==
    {"date", "liturgicalDate", "firstReading", "psalm", "secondReading",
     "gospel", "metadata"}

Apply(reading, key, alt) ==
    IF alt = Absent THEN Without(reading, key) ELSE With(reading, key, alt)

Changes == UNION { { <<k, a>> : a \in Alternatives(k) } : k \in RecordKeys }

RECURSIVE RecordsWithin(_)
RecordsWithin(n) ==
    IF n = 0 THEN {GoodRecord}
    ELSE LET prev == RecordsWithin(n - 1) IN
         prev \cup { Apply(r, c[1], c[2]) : r \in prev, c \in Changes }

Records == RecordsWithin(MaxDefects)

SectionNames == {"First Reading", "Second Reading", "Gospel"}

\* The sections handed to validate_reading_section on their own.
Sections ==
    UNION { (SectionAlternatives(g) \cup {g}) \ {Absent} :
            g \in {GoodFirst, GoodGospel, GoodSecond} }

(***************************************************************************)
(* The records a drift check compares: r2 is r with one field changed.     *)
(***************************************************************************)
\* In how many fields the first scrape of a drift check departs from the
\* complete record.
MaxDrift == 1

SectionKeys == {"firstReading", "psalm", "secondReading", "gospel"}

HasText(reading, key) ==
    key \in DOMAIN reading /\ IsDict(reading[key]) /\ "text" \in DOMAIN reading[key][2]

WithText(reading, key, t) ==
    With(reading, key, PyDict(With(reading[key][2], "text", t)))

Rescrapes(r) ==
    { <<"none", r>> }
    \cup { <<"metadata", Apply(r, "metadata", m)>> :
             m \in { a \in Alternatives("metadata") \cup {GoodRecord.metadata} :
                       a # (IF "metadata" \in DOMAIN r THEN r.metadata ELSE Absent) } }
    \cup { <<"date", With(r, "date", d)>> :
             d \in { a \in {PyStr("2025-10-01"), PyStr("2025-10-02")} :
                       "date" \in DOMAIN r /\ a # r.date } }
    \cup UNION { { <<key, WithText(r, key, t)>> :
                     t \in { a \in {PyStr(TextGospel), PyStr(Text50)} :
                               HasText(r, key) /\ a # r[key][2]["text"] } } :
                 key \in SectionKeys }

(***************************************************************************)
(* Text.  The text of a page is a sequence of one-character strings, so    *)
(* that strip(), lower(), startswith(), `in` and re.sub work on            *)
(* characters as in the code; ToStr makes the Python str of a record.      *)
(***************************************************************************)
Whitespace == {" ", "\n", "\t"}

UpperCase == <<"A","B","C","D","E","F","G","H","I","J","K","L","M","N","O","P","Q","R",
      "S","T","U","V","W","X","Y","Z">>

LowerCase == <<"a","b","c","d","e","f","g","h","i","j","k","l","m","n","o","p","q","r",
      "s","t","u","v","w","x","y","z">>

LowerChar(c) ==
    IF \E i \in 1..Len(UpperCase) : UpperCase[i] = c
       THEN LowerCase[CHOOSE i \in 1..Len(UpperCase) : UpperCase[i] = c]
       ELSE c

\* str.lower()
Lower(cs) == [i \in 1..Len(cs) |-> LowerChar(cs[i])]

RECURSIVE LStrip(_)
LStrip(cs) ==
    IF cs = <<>> \/ Head(cs) \notin Whitespace THEN cs ELSE LStrip(Tail(cs))

RECURSIVE RStrip(_)
RStrip(cs) ==
    IF cs = <<>> \/ cs[Len(cs)] \notin Whitespace THEN cs
    ELSE RStrip(SubSeq(cs, 1, Len(cs) - 1))

\* str.strip()
Strip(cs) == RStrip(LStrip(cs))

\* re.sub(r'\s+', ' ', text): every run of whitespace becomes one space.
CollapseWhitespace(cs) ==
    Concat([i \in 1..Len(cs) |->
        IF cs[i] \notin Whitespace THEN <<cs[i]>>
        ELSE IF i > 1 /\ cs[i - 1] \in Whitespace THEN <<>>
        ELSE <<" ">>])

\* `sub in cs`
Contains(cs, sub) ==
    \E i \in 0..(Len(cs) - Len(sub)) : SubSeq(cs, i + 1, i + Len(sub)) = sub

\* str.startswith
StartsWith(cs, prefix) ==
    Len(cs) >= Len(prefix) /\ SubSeq(cs, 1, Len(prefix)) = prefix

\* sep.join(parts)
RECURSIVE Join(_, _)
Join(parts, sep) ==
    IF parts = <<>> THEN <<>>
    ELSE IF Len(parts) = 1 THEN parts[1]
    ELSE parts[1] \o sep \o Join(Tail(parts), sep)

\* The str of a sequence of characters.
RECURSIVE ToStr(_)
ToStr(cs) ==
    IF cs = <<>> THEN ""
    ELSE IF Len(cs) = 1 THEN cs[1]
    ELSE LET h == Len(cs) \div 2 IN
         ToStr(SubSeq(cs, 1, h)) \o ToStr(SubSeq(cs, h + 1, Len(cs)))

\* re.compile(pattern, re.I).search(text) for a pattern of literal characters.
SearchIgnoreCase(pattern, text) == Contains(Lower(text), Lower(pattern))

(***************************************************************************)
(* The parsed page (the BeautifulSoup tree) as its elements in document    *)
(* order.  An element: tag, class, its text nodes (h1, h3 and div.address  *)
(* hold one), and for a div.content-body its <p> children, each a sequence *)
(* of text nodes.                                                          *)
(***************************************************************************)
Element(tag, cls, text, paras) == [tag |-> tag, cls |-> cls, text |-> text, paras |-> paras]

H1(cls, text) == Element("h1", cls, text, <<>>)

H3(text) == Element("h3", "", text, <<>>)

Address(text) == Element("div", "address", text, <<>>)

ContentBody(paras) == Element("div", "content-body", <<>>, paras)

IsTag(e, tag, cls) == e.tag = tag /\ (cls = "" \/ e.cls = cls)

\* The index of the first element after position `from` that holds P; 0 if none.
FindAfter(soup, from, P(_)) ==
    IF \E i \in (from + 1)..Len(soup) : P(soup[i])
       THEN CHOOSE i \in (from + 1)..Len(soup) :
                P(soup[i]) /\ \A j \in (from + 1)..(i - 1) : ~P(soup[j])
       ELSE 0

\* The index of the last element before position `from` that holds P; 0 if none.
FindBefore(soup, from, P(_)) ==
    IF \E i \in 1..(from - 1) : P(soup[i])
       THEN CHOOSE i \in 1..(from - 1) :
                P(soup[i]) /\ \A j \in (i + 1)..(from - 1) : ~P(soup[j])
       ELSE 0

IsContentBody(e) == IsTag(e, "div", "content-body")

IsAddress(e) == IsTag(e, "div", "address")

\* tag.get_text(strip=True) of an element with one text node.
GetTextStripped(e) == Strip(e.text)

\* p.get_text(separator=' ', strip=True): the stripped, non-empty text nodes
\* joined by one space.
ParagraphText(p) ==
    Join(SelectSeq([i \in 1..Len(p) |-> Strip(p[i])], LAMBDA n : n # <<>>), <<" ">>)

\* The loop body of _extract_reading and _extract_psalm on one <p>.
NormalizedParagraph(p) == CollapseWhitespace(ParagraphText(p))

(***************************************************************************)
(* usccb_scraper.py                                                        *)
(***************************************************************************)
PatternSecond1 == <<"R","e","a","d","i","n","g"," ","2">>

PatternSecond2 == <<"S","e","c","o","n","d"," ","R","e","a","d","i","n","g">>

PatternGospel == <<"G","o","s","p","e","l">>

PatternPsalm == <<"R","e","s","p","o","n","s","o","r","i","a","l"," ","P","s","a","l","m">>

\* soup.find('h3', string=re.compile(r'(Reading 2|Second Reading)', re.I))
IsSecondHeading(e) ==
    /\ IsTag(e, "h3", "")
    /\ \/ SearchIgnoreCase(PatternSecond1, e.text)
       \/ SearchIgnoreCase(PatternSecond2, e.text)

IsGospelHeading(e) == IsTag(e, "h3", "") /\ SearchIgnoreCase(PatternGospel, e.text)

IsPsalmHeading(e) == IsTag(e, "h3", "") /\ SearchIgnoreCase(PatternPsalm, e.text)

\* The last content-body of the page; 0 if none.
LastContentBody(soup) == FindBefore(soup, Len(soup) + 1, IsContentBody)

GospelSectionFirstBody(soup) ==
    LET h == FindAfter(soup, 0, IsGospelHeading) IN
    IF h # 0 THEN FindAfter(soup, h, IsContentBody) ELSE FindAfter(soup, 0, IsContentBody)

\* The gospel's section: the content-body after the "Gospel" heading, else the
\* last content-body of the page.
GospelSection(soup) ==
    LET h == FindAfter(soup, 0, IsGospelHeading) IN
    IF h # 0 THEN FindAfter(soup, h, IsContentBody) ELSE LastContentBody(soup)

SecondSectionAnyBody(soup) ==
    LET h == FindAfter(soup, 0, IsSecondHeading) IN
    IF h = 0 THEN FindAfter(soup, 0, IsContentBody) ELSE FindAfter(soup, h, IsContentBody)

\* The second reading's section: the content-body after its heading.
SecondSection(soup) ==
    LET h == FindAfter(soup, 0, IsSecondHeading) IN
    IF h = 0 THEN 0 ELSE FindAfter(soup, h, IsContentBody)

\* The index of the section of _extract_reading; 0 if not found.
LocateSection(soup, reading_type) ==
    CASE reading_type = "first" -> FindAfter(soup, 0, IsContentBody)
      [] reading_type = "second" -> SecondSection(soup)
      [] reading_type = "gospel" -> GospelSection(soup)

\* section.find_previous('div', class_='address'), its text stripped; "" if none.
Citation(soup, section) ==
    LET a == FindBefore(soup, section, IsAddress) IN
    IF a = 0 THEN <<>> ELSE GetTextStripped(soup[a])

\* The non-empty normalized paragraphs of a section.
TextParts(paras) ==
    SelectSeq([i \in 1..Len(paras) |-> NormalizedParagraph(paras[i])], LAMBDA t : t # <<>>)

ParagraphSeparator == <<"\n", "\n">>

ReadingTitle(reading_type) ==
    CASE reading_type = "first" -> "First Reading"
      [] reading_type = "second" -> "Second Reading"
      [] OTHER -> "Gospel"

\* _extract_reading(soup, reading_type): the section dict, or None.
_extract_reading(soup, reading_type) ==
    LET section == LocateSection(soup, reading_type) IN
    IF section = 0 THEN PyNone
    ELSE LET citation == ToStr(Citation(soup, section))
             full_text == ToStr(Join(TextParts(soup[section].paras), ParagraphSeparator))
         IN IF full_text = "" THEN PyNone
            ELSE PyDict([reference |-> PyStr(citation), citation |-> PyStr(citation),
                         text |-> PyStr(full_text),
                         title |-> PyStr(ReadingTitle(reading_type)),
                         audioUrl |-> PyNone])

\* U+211F, the response glyph of the second marker, as one character.
ResponseGlyph == "%"

IsResponse(t) == StartsWith(t, <<"R", ".">>) \/ StartsWith(t, <<ResponseGlyph, ".">>)

PsalmResponseLast(texts) ==
    IF \E i \in 1..Len(texts) : IsResponse(texts[i])
       THEN texts[CHOOSE i \in 1..Len(texts) :
                    IsResponse(texts[i]) /\ \A j \in (i + 1)..Len(texts) : ~IsResponse(texts[j])]
       ELSE <<>>

\* The response of _extract_psalm: the first response-marked paragraph, "" if none.
PsalmResponse(texts) ==
    IF \E i \in 1..Len(texts) : IsResponse(texts[i])
       THEN texts[CHOOSE i \in 1..Len(texts) :
                    IsResponse(texts[i]) /\ \A j \in 1..(i - 1) : ~IsResponse(texts[j])]
       ELSE <<>>

\* _extract_psalm(soup): the psalm dict, or None without heading or section.
_extract_psalm(soup) ==
    LET psalm_header == FindAfter(soup, 0, IsPsalmHeading) IN
    IF psalm_header = 0 THEN PyNone
    ELSE LET section == FindAfter(soup, psalm_header, IsContentBody) IN
         IF section = 0 THEN PyNone
         ELSE LET citation == ToStr(Citation(soup, section))
                  texts == [i \in 1..Len(soup[section].paras) |->
                               NormalizedParagraph(soup[section].paras[i])]
                  text_parts == SelectSeq(texts, LAMBDA t : IsResponse(t) \/ t # <<>>)
              IN PyDict([reference |-> PyStr(citation), citation |-> PyStr(citation),
                         text |-> PyStr(ToStr(Join(text_parts, ParagraphSeparator))),
                         response |-> PyStr(ToStr(PsalmResponse(texts))),
                         title |-> PyStr("Responsorial Psalm"),
                         audioUrl |-> PyNone])

\* The month table of _determine_season.
SeasonOfMonth(month) ==
    IF month \in {11, 12} THEN "Advent"
    ELSE IF month \in {1} THEN "Christmas"
    ELSE IF month \in {2, 3} THEN "Lent"
    ELSE IF month \in {4} THEN "Easter"
    ELSE "Ordinary Time"

SeasonByMonthOnly(liturgical_title, date) == SeasonOfMonth(date.month)

\* _determine_season(liturgical_title, date)
_determine_season(liturgical_title, date) ==
    LET title_lower == Lower(liturgical_title) IN
    IF Contains(title_lower, <<"a","d","v","e","n","t">>) THEN "Advent"
    ELSE IF Contains(title_lower, <<"c","h","r","i","s","t","m","a","s">>) THEN "Christmas"
    ELSE IF Contains(title_lower, <<"l","e","n","t">>)
            \/ Contains(title_lower, <<"a","s","h"," ","w","e","d","n","e","s","d","a","y">>) THEN "Lent"
    ELSE IF Contains(title_lower, <<"e","a","s","t","e","r">>) THEN "Easter"
    ELSE IF Contains(title_lower, <<"o","r","d","i","n","a","r","y"," ","t","i","m","e">>) THEN "Ordinary Time"
    ELSE SeasonOfMonth(date.month)

\* _get_liturgical_color(season, feast_day); feast_day is a text or NoFeast.
NoFeast == <<"none">>

SeasonColorOnly(season, feast_day) ==
    CASE season \in {"Advent", "Lent"} -> "purple"
      [] season \in {"Christmas", "Easter"} -> "white"
      [] OTHER -> "green"

_get_liturgical_color(season, feast_day) ==
    IF feast_day # NoFeast /\ feast_day # <<>>
       /\ (Contains(Lower(feast_day), <<"m","a","r","y">>) \/ Contains(Lower(feast_day), <<"v","i","r","g","i","n">>))
       THEN "white"
    ELSE CASE season = "Advent" -> "purple"
           [] season = "Christmas" -> "white"
           [] season = "Lent" -> "purple"
           [] season = "Easter" -> "white"
           [] season = "Ordinary Time" -> "green"
           [] OTHER -> "green"

(***************************************************************************)
(* datetime.date: [year, month, day]                                       *)
(***************************************************************************)
Pad2(n) == IF n < 10 THEN "0" \o ToString(n) ELSE ToString(n)

\* date.isoformat()
IsoFormat(date) == ToString(date.year) \o "-" \o Pad2(date.month) \o "-" \o Pad2(date.day)

\* date.strftime('%m%d%y')
UrlDate(date) == Pad2(date.month) \o Pad2(date.day) \o Pad2(date.year % 100)

IsLeap(y) == (y % 4 = 0 /\ y % 100 # 0) \/ y % 400 = 0

DaysInMonth(y, m) ==
    IF m = 2 THEN (IF IsLeap(y) THEN 29 ELSE 28)
    ELSE IF m \in {4, 6, 9, 11} THEN 30 ELSE 31

\* date + timedelta(days=1)
NextDay(date) ==
    IF date.day < DaysInMonth(date.year, date.month)
       THEN [date EXCEPT !.day = @ + 1]
    ELSE IF date.month < 12 THEN [date EXCEPT !.month = @ + 1, !.day = 1]
    ELSE [year |-> date.year + 1, month |-> 1, day |-> 1]

\* date - timedelta(days=1)
PrevDay(date) ==
    IF date.day > 1 THEN [date EXCEPT !.day = @ - 1]
    ELSE IF date.month > 1
       THEN [date EXCEPT !.month = @ - 1, !.day = DaysInMonth(date.year, date.month - 1)]
    ELSE [year |-> date.year - 1, month |-> 12, day |-> 31]

RECURSIVE PlusDays(_, _)
PlusDays(date, n) ==
    IF n = 0 THEN date
    ELSE IF n > 0 THEN PlusDays(NextDay(date), n - 1)
    ELSE PlusDays(PrevDay(date), n + 1)

\* date.strftime('%A'), the day of the week of the Gregorian calendar.
DayName(date) ==
    LET t == <<0, 3, 2, 5, 0, 3, 5, 1, 4, 6, 2, 4>>
        y == IF date.month < 3 THEN date.year - 1 ELSE date.year
        w == (y + (y \div 4) - (y \div 100) + (y \div 400) + t[date.month] + date.day) % 7
    IN <<"Sunday", "Monday", "Tuesday", "Wednesday", "Thursday", "Friday",
         "Saturday">>[w + 1]

BaseUrl == "https://bible.usccb.org/bible/readings"

SourceUrl(date) == BaseUrl \o "/" \o UrlDate(date) \o ".cfm"

IsPageTitle(e) == IsTag(e, "h1", "page-title")

IsH1(e) == IsTag(e, "h1", "")

\* The text of h1.page-title, else of the first h1, else "".
LiturgicalTitle(soup) ==
    LET styled == FindAfter(soup, 0, IsPageTitle)
        header == IF styled # 0 THEN styled ELSE FindAfter(soup, 0, IsH1)
    IN IF header = 0 THEN <<>> ELSE GetTextStripped(soup[header])

\* The feast day of _extract_liturgical_info: the title when it holds "feast"
\* or "solemnity", else None.
FeastDay(liturgical_title) ==
    IF Contains(Lower(liturgical_title), <<"f","e","a","s","t">>)
       \/ Contains(Lower(liturgical_title), <<"s","o","l","e","m","n","i","t","y">>)
       THEN liturgical_title ELSE NoFeast

\* _extract_liturgical_info(soup, date)
_extract_liturgical_info(soup, date) ==
    LET liturgical_title == LiturgicalTitle(soup)
        season == _determine_season(liturgical_title, date)
        feast_day == FeastDay(liturgical_title)
    IN PyDict([season |-> PyStr(season),
               dayOfWeek |-> PyStr(DayName(date)),
               feastDay |-> IF feast_day = NoFeast THEN PyNone ELSE PyStr(ToStr(feast_day)),
               liturgicalTitle |-> PyStr(ToStr(liturgical_title)),
               color |-> PyStr(_get_liturgical_color(season, feast_day))])

\* What session.get, raise_for_status and BeautifulSoup hand to scrape: the
\* parsed page, or a failure (RequestException, HTTP error status).
Fetched(soup) == [ok |-> TRUE, soup |-> soup]

FetchFailed == [ok |-> FALSE, soup |-> <<>>]

\* The reading_data dict of scrape before the check of the required readings.
ReadingData(date, soup) ==
    [date |-> PyStr(IsoFormat(date)),
     liturgicalDate |-> _extract_liturgical_info(soup, date),
     firstReading |-> _extract_reading(soup, "first"),
     psalm |-> _extract_psalm(soup),
     secondReading |-> _extract_reading(soup, "second"),
     gospel |-> _extract_reading(soup, "gospel"),
     metadata |-> SourceMetadata(SourceUrl(date))]

RequiredMissingGospelOnly(reading_data) == ~Truthy(reading_data.gospel)

\* if not reading_data['gospel'] or not reading_data['firstReading']
RequiredMissing(reading_data) ==
    ~Truthy(reading_data.gospel) \/ ~Truthy(reading_data.firstReading)

\* The end of scrape: None when a required reading is missing.
CheckedReading(reading_data) ==
    IF RequiredMissing(reading_data) THEN PyNone ELSE PyDict(reading_data)

\* USCCBScraper.scrape(date): the reading dict, or None.
scrape(date, page) ==
    IF ~page.ok THEN PyNone
    ELSE ByValue(CheckedReading, ReadingData(date, page.soup))

(***************************************************************************)
(* The pages handed to the scraper.  A page is built from blocks: an       *)
(* optional h3 heading, an optional div.address and an optional            *)
(* div.content-body, in that order.                                        *)
(***************************************************************************)
MaxBlocks == 2

MaxParas == 2

ParaLong ==
    << <<" "," ","A","s"," ","t","h","e","y"," ","w","e","r","e"," ","p","r","o",
      "c","e","e","d","i","n","g"," ","o","n"," ","t","h","e","i","r"," ",
      " ","j","o","u","r","n","e","y"," ","s","o","m","e","o","n","e"," ",
      "s","a","i","d">>,
       <<"I"," ","w","i","l","l"," ","f","o","l","l","o","w"," ","y","o","u"," ",
      "w","h","e","r","e","v","e","r"," ","y","o","u"," ","g","o",".","\n">> >>

ParaOther ==
    << <<"J","e","s","u","s"," ","a","n","s","w","e","r","e","d"," ","h","i","m",
      ","," ","F","o","x","e","s"," ","h","a","v","e"," ","d","e","n","s",
      " ","a","n","d"," ","b","i","r","d","s"," ","o","f"," ","t","h","e",
      " ","s","k","y"," ","h","a","v","e"," ","n","e","s","t","s",".">> >>

ParaShort == << <<"A","m","e","n",","," ","a","m","e","n",","," ","I"," ","s","a","y"," ",
      "t","o"," ","y","o","u",".">> >>

ParaBlank == << <<" ","\n"," ">> >>

ParaResponse == << <<"R","."," ","L","e","t"," ","m","y"," ","t","o","n","g","u","e"," ","b",
      "e"," ","s","i","l","e","n","c","e","d",","," ","i","f"," ","I"," ",
      "e","v","e","r"," ","f","o","r","g","e","t"," ","y","o","u","!">> >>

ParaResponseGlyph == << <<"%","."," ","I","f"," ","I"," ","f","o","r","g","e","t"," ","y","o","u",
      ","," ","J","e","r","u","s","a","l","e","m",","," ","m","a","y"," ",
      "m","y"," ","r","i","g","h","t"," ","h","a","n","d"," ","b","e"," ",
      "f","o","r","g","o","t","t","e","n","!">> >>

HeadingPsalm == <<"R","e","s","p","o","n","s","o","r","i","a","l"," ","P","s","a","l","m">>

HeadingSecond == <<"R","e","a","d","i","n","g"," ","2">>

HeadingSecondUpper == <<"S","E","C","O","N","D"," ","R","E","A","D","I","N","G">>

HeadingGospel == <<"G","o","s","p","e","l">>

HeadingFirst == <<"R","e","a","d","i","n","g"," ","1">>

HeadingAlleluia == <<"A","l","l","e","l","u","i","a">>

CitationLuke == <<"L","u","k","e"," ","9",":","5","7","-","6","2">>

TitleOrdinary == <<"W","e","d","n","e","s","d","a","y"," ","o","f"," ","t","h","e"," ","T",
      "w","e","n","t","y","-","s","i","x","t","h"," ","W","e","e","k"," ",
      "i","n"," ","O","r","d","i","n","a","r","y"," ","T","i","m","e">>

Block(heading, address, hasBody, body) ==
    [heading |-> heading, address |-> address, hasBody |-> hasBody, body |-> body]

BlockElements(b) ==
    (IF b.heading # <<>> THEN <<H3(b.heading)>> ELSE <<>>)
    \o (IF b.address # <<>> THEN <<Address(b.address)>> ELSE <<>>)
    \o (IF b.hasBody THEN <<ContentBody(b.body)>> ELSE <<>>)

\* The page with the given title (<<>>: no h1) and blocks.
Page(title, blocks) ==
    Fetched((IF title # <<>> THEN <<H1("page-title", title)>> ELSE <<>>)
            \o Concat([i \in 1..Len(blocks) |-> BlockElements(blocks[i])]))

SeqsUpTo(S, n) == UNION { [1..k -> S] : k \in 0..n }

Addresses == {<<>>, CitationLuke}

BlocksOver(headings, bodies) ==
    { Block(h, a, TRUE, b) : h \in headings, a \in Addresses, b \in bodies }
    \cup { Block(h, a, FALSE, <<>>) : h \in headings, a \in Addresses }

\* Pages without h1, of up to MaxBlocks blocks with bodies of one paragraph.
WidePages ==
    { Page(<<>>, bs) :
        bs \in SeqsUpTo(BlocksOver({<<>>, HeadingPsalm, HeadingSecond, HeadingGospel},
                                   {<<ParaBlank>>, <<ParaLong>>}),
                        MaxBlocks) }

\* Pages of one block with bodies of up to MaxParas paragraphs.
DeepPages ==
    { Page(t, <<b>>) :
        t \in {<<>>, TitleOrdinary},
        b \in BlocksOver({<<>>, HeadingPsalm, HeadingSecond, HeadingSecondUpper, HeadingGospel},
                         SeqsUpTo({ParaBlank, ParaLong, ParaShort, ParaResponse,
                                   ParaResponseGlyph}, MaxParas)) }

\* Pages as the site serves them: a weekday, a Sunday (with a second reading),
\* a weekday page without div.address elements, a page without readings.
FirstBlock(address) == Block(HeadingFirst, address, TRUE, <<ParaLong>>)

PsalmBlock(address) == Block(HeadingPsalm, address, TRUE, <<ParaResponse, ParaOther>>)

SecondBlock(address) == Block(HeadingSecond, address, TRUE, <<ParaOther, ParaLong>>)

AlleluiaBlock == Block(HeadingAlleluia, <<>>, TRUE, <<ParaShort>>)

GospelBlock(address) == Block(HeadingGospel, address, TRUE, <<ParaLong, ParaOther>>)

WeekdayPage ==
    Page(TitleOrdinary, <<FirstBlock(<<"N","e","h"," ","2",":","1","-","8">>), PsalmBlock(<<"P","s"," ","1","3","7",":","1","-","6">>),
                          AlleluiaBlock, GospelBlock(CitationLuke)>>)

SundayPage ==
    Page(<<"T","w","e","n","t","y","-","s","e","v","e","n","t","h"," ","S","u","n",
      "d","a","y"," ","i","n"," ","O","r","d","i","n","a","r","y"," ","T",
      "i","m","e">>,
         <<FirstBlock(<<"H","a","b"," ","1",":","2","-","3">>), PsalmBlock(<<"P","s"," ","9","5",":","1","-","9">>),
           SecondBlock(<<"2"," ","T","i","m"," ","1",":","6","-","1","4">>), AlleluiaBlock, GospelBlock(<<"L","u","k","e"," ","1","7",":","5","-","1","0">>)>>)

NoAddressPage ==
    Page(TitleOrdinary, <<FirstBlock(<<>>), PsalmBlock(<<>>), AlleluiaBlock,
                          GospelBlock(<<>>)>>)

NoReadingsPage == Page(<<"P","a","g","e"," ","n","o","t"," ","f","o","u","n","d">>, <<>>)

SitePages == {WeekdayPage, SundayPage, NoAddressPage, NoReadingsPage}

\* What a fetch may hand to scrape.
Fetches == SitePages \cup {FetchFailed}

Pages == WidePages \cup DeepPages \cup Fetches

Today == [year |-> 2025, month |-> 10, day |-> 1]

(***************************************************************************)
(* main.py: manual_scrape, and populate_readings.py                        *)
(***************************************************************************)
\* timedelta(days=7) and timedelta(days=21) in populate_readings, scaled down.
DaysBack == 1

DaysForward == 1

\* datetime.utcnow().isoformat() at the time of the manual scrape.
UtcNow == "2025-10-01T06:00:00.000000"

\* The JSON bodies posted to manual_scrape (None: no JSON body).
ManualRequests ==
    { PyNone, PyDict(EmptyDict),
      PyDict([date |-> PyStr("2025-10-01")]),
      PyDict([date |-> PyStr("2025-10-02")]),
      PyDict([date |-> PyStr("tomorrow")]) }

\* The dates datetime.fromisoformat can be asked for here.
KnownDates == { PlusDays(Today, k) : k \in (0 - DaysBack - 1)..(DaysForward + 1) }

InvalidDate == [year |-> 0, month |-> 0, day |-> 0]

\* datetime.fromisoformat(date_str).date(); InvalidDate stands for ValueError.
FromIsoFormat(date_str) ==
    IF \E d \in KnownDates : IsoFormat(d) = date_str
       THEN CHOOSE d \in KnownDates : IsoFormat(d) = date_str
       ELSE InvalidDate

Response(status, success, error, details) ==
    [status |-> status, success |-> success, error |-> error, details |-> details]

NoWrite == <<>>

\* doc_ref = collection('readings').document(id); doc_ref.set(doc)
Write(id, doc) == << [id |-> id, doc |-> doc] >>

\* What a run of an entry point does: its response, its writes and the
\* records it handed to calculate_checksum.
Outcome(response, writes, checksummed) ==
    [response |-> response, writes |-> writes, checksummed |-> checksummed]

\* The metadata block manual_scrape attaches before the write.
ManualMetadata(reading, checksum) ==
    PyDict([scrapedAt |-> PyStr(UtcNow \o "Z"),
            source |-> (IF IsDict(Get(reading, "metadata"))
                           THEN (IF "source" \in DOMAIN reading.metadata[2]
                                    THEN reading.metadata[2]["source"] ELSE PyStr("USCCB"))
                           ELSE PyStr("USCCB")),
            checksum |-> checksum,
            validated |-> PyBool(TRUE),
            version |-> PyStr("1.0"),
            manualTrigger |-> PyBool(TRUE)])

\* manual_scrape from the scraped reading on: validate, checksum, metadata, write.
StoreValidated(date_str, scraped) ==
    IF ~Truthy(scraped) THEN Outcome(Response(500, FALSE, "Scraping failed", <<>>), NoWrite, <<>>)
    ELSE LET reading == scraped[2]
             validation == validate_reading(reading) IN
         IF validation.raised
            THEN Outcome(Response(500, FALSE, "TypeError", <<>>), NoWrite, <<>>)
         ELSE IF validation.valid
            THEN Outcome(Response(200, TRUE, "", <<>>),
                         Write(date_str,
                               With(reading, "metadata",
                                    ManualMetadata(reading, calculate_checksum(reading)))),
                         <<reading>>)
         ELSE Outcome(Response(500, FALSE, "Validation failed", validation.errors), NoWrite, <<>>)

\* manual_scrape(req), the fetch handing `page` to the scraper.
manual_scrape(data, page) ==
    IF ~Truthy(data) \/ ~PyIn("date", data)
       THEN Outcome(Response(400, FALSE, "Missing date parameter", <<>>), NoWrite, <<>>)
    ELSE LET date_str == data[2]["date"][2]
             target_date == FromIsoFormat(date_str) IN
         IF target_date = InvalidDate
            THEN Outcome(Response(500, FALSE, "Invalid isoformat string", <<>>), NoWrite, <<>>)
            ELSE ByValue(LAMBDA scraped : StoreValidated(date_str, scraped),
                         scrape(target_date, page))

\* One pass of the loop of populate_readings, for current_date.
PopulateOne(current_date, page) ==
    ByValue(LAMBDA reading :
                IF Truthy(reading)
                   THEN Outcome(Response(0, TRUE, "", <<>>),
                                Write(IsoFormat(current_date), reading[2]), <<>>)
                   ELSE Outcome(Response(0, FALSE, "Failed to scrape", <<>>), NoWrite, <<>>),
            scrape(current_date, page))

\* The dates of the loop of populate_readings, in order.
PopulateDates == [i \in 0..(DaysBack + DaysForward) |-> PlusDays(Today, i - DaysBack)]

\* What the entry points do for each request and fetch, worked out once.
ManualOutcomes ==
    [data \in ManualRequests, page \in Fetches |-> manual_scrape(data, page)]

PopulateOutcomes ==
    [i \in DOMAIN PopulateDates, page \in Fetches |-> PopulateOne(PopulateDates[i], page)]

\* The collection after the writes.
RECURSIVE Stored(_, _)
Stored(docs, writes) ==
    IF writes = <<>> THEN docs
    ELSE Stored(With(docs, Head(writes).id, Head(writes).doc), Tail(writes))

(***************************************************************************)
(* State.  phase: "idle" before anything ran, "called" after one call of a *)
(* library function (the functions are pure: a call neither reads nor      *)
(* leaves state, so one call per behaviour covers them), "pipeline" once   *)
(* an entry point has run.  call: the last call and what it returned.      *)
(* store: the 'readings' collection, by document id.  popIdx: the position *)
(* of populate_readings in its window of dates.                            *)
(***************************************************************************)
NoCall == [op |-> "none"]

Init ==
    /\ phase = "idle"
    /\ call = NoCall
    /\ store = EmptyDict
    /\ popIdx = 0

\* validate_reading(reading) called on a candidate record.
ValidateReading ==
    /\ phase = "idle"
    /\ \E r \in Records :
         call' = [op |-> "validate_reading", reading |-> r, result |-> validate_reading(r)]
    /\ phase' = "called"
    /\ UNCHANGED <<store, popIdx>>

\* verify_checksum(r2, calculate_checksum(r)): the drift check between two
\* scrapes, r2 being r with the field `changed` changed.
VerifyChecksum ==
    /\ phase = "idle"
    /\ \E r \in RecordsWithin(MaxDrift) : \E m \in Rescrapes(r) :
         call' = [op |-> "verify_checksum", original |-> r, changed |-> m[1],
                  reading |-> m[2], expected |-> calculate_checksum(r),
                  result |-> verify_checksum(m[2], calculate_checksum(r))]
    /\ phase' = "called"
    /\ UNCHANGED <<store, popIdx>>

\* validate_reading_section(section, name) called on one section.
ValidateReadingSection ==
    /\ phase = "idle"
    /\ \E section \in Sections : \E name \in SectionNames :
         call' = [op |-> "validate_reading_section", section |-> section, name |-> name,
                  result |-> validate_reading_section(section, name)]
    /\ phase' = "called"
    /\ UNCHANGED <<store, popIdx>>

\* USCCBScraper.scrape(date) on a fetched page.
Scrape ==
    /\ phase = "idle"
    /\ \E page \in Pages :
         call' = [op |-> "scrape", date |-> Today, page |-> page,
                  result |-> scrape(Today, page)]
    /\ phase' = "called"
    /\ UNCHANGED <<store, popIdx>>

\* manual_scrape(req): one request handled, the fetch returning `page`.
ManualScrape ==
    /\ phase \in {"idle", "pipeline"}
    /\ \E data \in ManualRequests : \E page \in Fetches :
         \E out \in {ManualOutcomes[data, page]} :
            /\ call' = [op |-> "manual_scrape", response |-> out.response,
                        writes |-> out.writes, checksummed |-> out.checksummed]
            /\ store' = Stored(store, out.writes)
    /\ phase' = "pipeline"
    /\ UNCHANGED popIdx

\* populate_readings: one pass of its loop, the fetch returning `page`.
PopulateReadings ==
    /\ phase \in {"idle", "pipeline"}
    /\ popIdx <= DaysBack + DaysForward
    /\ \E page \in Fetches :
         \E out \in {PopulateOutcomes[popIdx, page]} :
            /\ call' = [op |-> "populate_readings", response |-> out.response]
            /\ store' = Stored(store, out.writes)
    /\ phase' = "pipeline"
    /\ popIdx' = popIdx + 1

\* The seasons and feast days _get_liturgical_color is called with: the five
\* seasons, a season outside the table and the empty string; no feast day,
\* the empty title and four titles.
ColorSeasons ==
    {"Advent", "Christmas", "Lent", "Easter", "Ordinary Time", "Pentecost", ""}

FeastBlessedVirginMary ==
    <<"S","o","l","e","m","n","i","t","y"," ","o","f"," ","t","h","e"," ","B",
      "l","e","s","s","e","d"," ","V","i","r","g","i","n"," ","M","a","r",
      "y">>

FeastMaryMagdalene ==
    <<"F","e","a","s","t"," ","o","f"," ","S","a","i","n","t"," ","M","A","R",
      "Y"," ","M","a","g","d","a","l","e","n","e">>

FeastPresentation ==
    <<"F","e","a","s","t"," ","o","f"," ","t","h","e"," ","P","r","e","s","e",
      "n","t","a","t","i","o","n"," ","o","f"," ","t","h","e"," ","L","o",
      "r","d">>

FeastVirginOnly ==
    <<"M","e","m","o","r","i","a","l"," ","o","f"," ","S","a","i","n","t"," ",
      "A","g","n","e","s",","," ","V","I","R","G","I","N"," ","a","n","d",
      " ","M","a","r","t","y","r">>

ColorFeasts ==
    {NoFeast, <<>>, FeastBlessedVirginMary, FeastMaryMagdalene, FeastPresentation,
     FeastVirginOnly}

\* _get_liturgical_color(season, feast_day) called on its own.
GetLiturgicalColor ==
    /\ phase = "idle"
    /\ \E season \in ColorSeasons : \E feast_day \in ColorFeasts :
         call' = [op |-> "get_liturgical_color", season |-> season,
                  feast_day |-> feast_day,
                  result |-> _get_liturgical_color(season, feast_day)]
    /\ phase' = "called"
    /\ UNCHANGED <<store, popIdx>>

\* The titles _determine_season is called with: one per keyword, two with
\* keywords of two seasons, two without keyword, the empty title.
TitleAdvent ==
    <<"F","i","r","s","t"," ","S","u","n","d","a","y"," ","o","f"," ","A","d",
      "v","e","n","t">>

TitleChristmas ==
    <<"T","h","e"," ","N","a","t","i","v","i","t","y"," ","o","f"," ","t","h",
      "e"," ","L","o","r","d"," ","(","C","h","r","i","s","t","m","a","s",
      ")">>

TitleLent ==
    <<"S","e","c","o","n","d"," ","S","u","n","d","a","y"," ","o","f"," ","L",
      "E","N","T">>

TitleAshWednesday ==
    <<"A","s","h"," ","W","e","d","n","e","s","d","a","y">>

TitleEaster ==
    <<"M","o","n","d","a","y"," ","i","n"," ","t","h","e"," ","O","c","t","a",
      "v","e"," ","o","f"," ","E","a","s","t","e","r">>

TitleAdventChristmas ==
    <<"C","h","r","i","s","t","m","a","s"," ","E","v","e",","," ","S","a","t",
      "u","r","d","a","y"," ","o","f"," ","t","h","e"," ","F","o","u","r",
      "t","h"," ","W","e","e","k"," ","o","f"," ","A","d","v","e","n","t">>

TitleEasterOrdinary ==
    <<"O","r","d","i","n","a","r","y"," ","T","i","m","e"," ","r","e","s","u",
      "m","e","s"," ","a","f","t","e","r"," ","E","a","s","t","e","r">>

TitlePeterPaul ==
    <<"S","a","i","n","t","s"," ","P","e","t","e","r"," ","a","n","d"," ","P",
      "a","u","l",","," ","A","p","o","s","t","l","e","s">>

SeasonTitles ==
    {TitleOrdinary, TitleAdvent, TitleChristmas, TitleLent, TitleAshWednesday,
     TitleEaster, TitleAdventChristmas, TitleEasterOrdinary, TitlePeterPaul, <<>>}

\* The dates _determine_season is called with: one of each month.
SeasonDates == { [year |-> Today.year, month |-> m, day |-> 1] : m \in 1..12 }

\* _determine_season(liturgical_title, date) called on its own.
DetermineSeason ==
    /\ phase = "idle"
    /\ \E liturgical_title \in SeasonTitles : \E date \in SeasonDates :
         call' = [op |-> "determine_season", title |-> liturgical_title, date |-> date,
                  result |-> _determine_season(liturgical_title, date)]
    /\ phase' = "called"
    /\ UNCHANGED <<store, popIdx>>

\* The parsed pages the extractors are called on: the site's pages, the
\* pages of one block, and the pages of several blocks without div.address.
Soups ==
    { page.soup : page \in { p \in SitePages \cup DeepPages : p.ok } }
    \cup { page.soup :
              page \in { p \in WidePages : \A i \in 1..Len(p.soup) : ~IsAddress(p.soup[i]) } }

ReadingTypes == {"first", "second", "gospel"}

\* _extract_reading(soup, reading_type) called on a parsed page.
ExtractReading ==
    /\ phase = "idle"
    /\ \E soup \in Soups : \E reading_type \in ReadingTypes :
         call' = [op |-> "_extract_reading", soup |-> soup, reading_type |-> reading_type,
                  result |-> _extract_reading(soup, reading_type)]
    /\ phase' = "called"
    /\ UNCHANGED <<store, popIdx>>

\* _extract_psalm(soup) called on a parsed page.
ExtractPsalm ==
    /\ phase = "idle"
    /\ \E soup \in Soups :
         call' = [op |-> "_extract_psalm", soup |-> soup, result |-> _extract_psalm(soup)]
    /\ phase' = "called"
    /\ UNCHANGED <<store, popIdx>>

\* calculate_checksum(reading) called on a record, with what it logs.
CalculateChecksum ==
    /\ phase = "idle"
    /\ \E r \in RecordsWithin(MaxDrift) :
         call' = [op |-> "calculate_checksum", reading |-> r,
                  result |-> calculate_checksum(r), log |-> ChecksumLog(r)]
    /\ phase' = "called"
    /\ UNCHANGED <<store, popIdx>>

Next ==
    \/ ValidateReading
    \/ ValidateReadingSection
    \/ VerifyChecksum
    \/ Scrape
    \/ ManualScrape
    \/ PopulateReadings
    \/ GetLiturgicalColor
    \/ DetermineSeason
    \/ ExtractReading
    \/ ExtractPsalm
    \/ CalculateChecksum

Spec == Init /\ [][Next]_vars

(***************************************************************************)
(* Properties                                                              *)
(***************************************************************************)
Validated == call.op = "validate_reading"

Verified == call.op = "verify_checksum"

IsValid(reading) ==
    ~validate_reading(reading).raised /\ validate_reading(reading).valid

Serializable(reading) == ~JsonFails(ContentOf(reading, ContentKeys))

InSeq(x, seq) == \E i \in 1..Len(seq) : seq[i] = x

\* C1 as stated: for a valid record r and a record that differs from r only
\* in 'metadata', the two checksums are equal, on every path of
\* calculate_checksum.
C1_ChecksumIgnoresMetadataOnEveryPath ==
    (Verified /\ call.changed = "metadata" /\ IsValid(call.original))
        => call.result = TRUE

\* C1 amended: for a valid record r whose content fields json.dumps can
\* serialize, and a record that differs from r only in 'metadata', the two
\* checksums are equal.
C1_CanonicalChecksumIgnoresMetadata ==
    (Verified /\ call.changed = "metadata" /\ IsValid(call.original)
       /\ Serializable(call.original))
        => call.result = TRUE

C1_Witness ==
    /\ Verified /\ call.changed = "metadata" /\ IsValid(call.original)
    /\ Serializable(call.original)
    /\ "metadata" \in DOMAIN call.reading
    /\ call.reading.metadata # call.original.metadata
    /\ call.result = TRUE

\* C2: verify_checksum(r, calculate_checksum(r)) is true, and it is false for
\* a record obtained from r by changing the date or the text of one reading.
C2_VerifyDetectsContentChange ==
    Verified =>
        /\ call.changed = "none" => call.result = TRUE
        /\ call.changed \in {"date"} \cup SectionKeys => call.result = FALSE

C2_Witness ==
    /\ Verified /\ call.changed = "gospel"
    /\ call.original.gospel[2]["text"] # call.reading.gospel[2]["text"]
    /\ call.result = FALSE

\* The sections of the record are objects or null, not scalars.
SectionsAreObjects(reading) ==
    \A k \in SectionKeys \cap DOMAIN reading : reading[k] = PyNone \/ IsDict(reading[k])

\* C3: validate_reading never raises, and its errors list is empty exactly
\* when valid is true, also for a record whose section holds null or a
\* non-string under a present key such as 'text'.
C3_ValidateIsTotal ==
    (Validated /\ SectionsAreObjects(call.reading)) =>
        /\ ~call.result.raised
        /\ (call.result.errors = <<>>) <=> call.result.valid

\* C5: a record whose firstReading is missing, null or empty is never
\* reported valid.
C5_FirstReadingIsMandatory ==
    (Validated /\ ~Present(call.reading, "firstReading"))
        => ~(~call.result.raised /\ call.result.valid)

\* C6: for every record whose gospel is missing, null or empty,
\* validate_reading returns valid=false with the message "Gospel reading is
\* required but missing" among its errors.
C6_MissingGospelIsReported ==
    (Validated /\ ~Present(call.reading, "gospel") /\ SectionsAreObjects(call.reading))
        => /\ ~call.result.raised
           /\ ~call.result.valid
           /\ InSeq("Gospel reading is required but missing", call.result.errors)

\* C6 where validate_reading returns: the message is there and valid is false.
C6_MissingGospelIsReportedOnReturn ==
    (Validated /\ ~Present(call.reading, "gospel") /\ ~call.result.raised)
        => /\ ~call.result.valid
           /\ InSeq("Gospel reading is required but missing", call.result.errors)

\* The messages of each step of the traversal, by step.
SectionMessages(name) ==
    { name \o ": Missing field '" \o f \o "'" : f \in {"reference", "citation", "text", "title"} }
    \cup { name \o ": Field '" \o f \o "' is empty" : f \in {"reference", "citation", "text", "title"} }
    \cup { name \o ": Text too short (" \o ToString(n) \o " chars)" : n \in 0..49 }

TraversalStep(msg) ==
    CASE msg \in { "Missing required field: " \o f :
                   f \in {"date", "liturgicalDate", "firstReading", "gospel", "metadata"} }
              \cup {"Invalid date format (expected YYYY-MM-DD)", "Invalid date value"} -> 1
      [] msg \in SectionMessages("First Reading") -> 2
      [] msg \in SectionMessages("Gospel") \cup {"Gospel reading is required but missing"} -> 3
      [] msg \in SectionMessages("Psalm")
              \cup {"Psalm: Missing 'response' field", "Psalm: Response is empty"} -> 4
      [] msg \in SectionMessages("Second Reading") -> 5
      [] msg \in {"liturgicalDate must be an object", "liturgicalDate missing season",
                  "liturgicalDate missing dayOfWeek"} -> 6
      [] OTHER -> 0

\* The errors are in traversal order (top level, first reading, gospel, psalm,
\* second reading, liturgicalDate) and the defects of every step are there.
OrderedAndComplete(r, e) ==
    /\ \A i \in 1..Len(e) : TraversalStep(e[i]) >= 1
    /\ \A i, j \in 1..Len(e) : i < j => TraversalStep(e[i]) <= TraversalStep(e[j])
    /\ \A f \in {"date", "liturgicalDate", "firstReading", "gospel", "metadata"} :
          f \notin DOMAIN r => InSeq("Missing required field: " \o f, e)
    /\ ~Present(r, "gospel") => InSeq("Gospel reading is required but missing", e)
    /\ ("liturgicalDate" \in DOMAIN r /\ ~IsDict(r.liturgicalDate))
          => InSeq("liturgicalDate must be an object", e)
    /\ ("date" \in DOMAIN r /\ ~IsStr(r.date))
          => InSeq("Invalid date format (expected YYYY-MM-DD)", e)

\* C7: validate_reading reports every defect of a record in one pass, in
\* traversal order: top level, first reading, gospel, psalm, second reading,
\* liturgicalDate.
C7_ErrorsInTraversalOrder ==
    (Validated /\ SectionsAreObjects(call.reading)) =>
        /\ ~call.result.raised
        /\ OrderedAndComplete(call.reading, call.result.errors)

\* C7 where validate_reading returns.
C7_ErrorsInTraversalOrderOnReturn ==
    (Validated /\ ~call.result.raised)
        => OrderedAndComplete(call.reading, call.result.errors)

\* C8: for a section whose 'text' is a string, validate_reading_section
\* reports "Text too short (n chars)" exactly when n is the length of the text
\* and n < 50.
C8_TooShortBelowFifty ==
    (call.op = "validate_reading_section" /\ IsDict(call.section)
       /\ "text" \in DOMAIN call.section[2] /\ IsStr(call.section[2]["text"]))
        => \A n \in 0..200 :
              InSeq(call.name \o ": Text too short (" \o ToString(n) \o " chars)",
                    call.result.errors)
              <=> (n = Len(call.section[2]["text"][2]) /\ n < 50)

C8_Witness ==
    /\ call.op = "validate_reading_section" /\ IsDict(call.section)
    /\ "text" \in DOMAIN call.section[2] /\ IsStr(call.section[2]["text"])
    /\ Len(call.section[2]["text"][2]) = 49
    /\ InSeq(call.name \o ": Text too short (49 chars)", call.result.errors)

\* C4: every record in the 'readings' store is one validate_reading reports
\* valid, whichever entry point wrote it.
C4_StoredRecordsAreValid ==
    \A id \in DOMAIN store : IsValid(store[id])

Scraped == call.op = "scrape"

\* A content-body with a paragraph holding a character that is not whitespace.
HasReadableText(e) ==
    \E p \in 1..Len(e.paras) : \E n \in 1..Len(e.paras[p]) :
        \E c \in 1..Len(e.paras[p][n]) : e.paras[p][n][c] \notin Whitespace

HeadingWith(e, pattern) == e.tag = "h3" /\ Contains(Lower(e.text), Lower(pattern))

\* The first content-body of the page exists and has readable text.
FirstReadingUsable(soup) ==
    \E i \in 1..Len(soup) :
        /\ IsContentBody(soup[i]) /\ HasReadableText(soup[i])
        /\ \A j \in 1..(i - 1) : ~IsContentBody(soup[j])

\* The content-body after the first "Gospel" heading, or without such a
\* heading the last content-body of the page, exists and has readable text.
GospelUsable(soup) ==
    IF \E h \in 1..Len(soup) : HeadingWith(soup[h], PatternGospel)
       THEN \E h \in 1..Len(soup) : \E i \in (h + 1)..Len(soup) :
               /\ HeadingWith(soup[h], PatternGospel)
               /\ \A g \in 1..(h - 1) : ~HeadingWith(soup[g], PatternGospel)
               /\ IsContentBody(soup[i]) /\ HasReadableText(soup[i])
               /\ \A j \in (h + 1)..(i - 1) : ~IsContentBody(soup[j])
       ELSE \E i \in 1..Len(soup) :
               /\ IsContentBody(soup[i]) /\ HasReadableText(soup[i])
               /\ \A j \in (i + 1)..Len(soup) : ~IsContentBody(soup[j])

\* C9: scrape returns None exactly when the fetch failed or the gospel or the
\* first reading could not be located with non-empty text; otherwise it
\* returns a record whose gospel and firstReading are sections with text,
\* whatever the psalm and the second reading are.
C9_ScrapeAbsentExactly ==
    Scraped =>
        /\ (call.result = PyNone)
              <=> \/ ~call.page.ok
                  \/ ~FirstReadingUsable(call.page.soup)
                  \/ ~GospelUsable(call.page.soup)
        /\ call.result # PyNone =>
              /\ IsDict(call.result)
              /\ \A k \in {"gospel", "firstReading"} :
                    /\ IsDict(call.result[2][k])
                    /\ IsStr(call.result[2][k][2]["text"])
                    /\ call.result[2][k][2]["text"][2] # ""

C9_Witness ==
    /\ Scraped /\ call.page.ok
    /\ call.result # PyNone
    /\ call.result[2]["psalm"] = PyNone
    /\ call.result[2]["secondReading"] = PyNone

HasSecondHeading(soup) ==
    \E i \in 1..Len(soup) :
        HeadingWith(soup[i], PatternSecond1) \/ HeadingWith(soup[i], PatternSecond2)

WellFormedSection(reading, key) ==
    /\ key \in DOMAIN reading /\ IsDict(reading[key])
    /\ \A f \in {"reference", "citation", "text", "title"} :
          /\ f \in DOMAIN reading[key][2]
          /\ IsStr(reading[key][2][f]) /\ reading[key][2][f][2] # ""
    /\ Len(reading[key][2]["text"][2]) >= 50

\* A record complete but for its second reading.
OtherwiseComplete(reading) ==
    /\ {"date", "liturgicalDate", "firstReading", "gospel", "psalm", "metadata"}
          \subseteq DOMAIN reading
    /\ IsStr(reading["date"]) /\ Len(reading["date"][2]) = 10
    /\ WellFormedSection(reading, "firstReading")
    /\ WellFormedSection(reading, "gospel")
    /\ WellFormedSection(reading, "psalm")
    /\ "response" \in DOMAIN reading["psalm"][2]
    /\ IsStr(reading["psalm"][2]["response"]) /\ reading["psalm"][2]["response"][2] # ""
    /\ IsDict(reading["liturgicalDate"])
    /\ {"season", "dayOfWeek"} \subseteq DOMAIN reading["liturgicalDate"][2]

SecondReadingAbsent(reading) ==
    "secondReading" \notin DOMAIN reading \/ reading["secondReading"] = PyNone

\* C10: a page without a "Reading 2"/"Second Reading" heading gives a record
\* whose secondReading is None, and a record complete but for its second
\* reading is valid, with no error about the second reading.
C10_NoSecondReadingStillValid ==
    /\ (Scraped /\ call.page.ok /\ ~HasSecondHeading(call.page.soup)
          /\ call.result # PyNone)
          => /\ call.result[2]["secondReading"] = PyNone
             /\ OtherwiseComplete(call.result[2]) => IsValid(call.result[2])
    /\ (Validated /\ SecondReadingAbsent(call.reading) /\ OtherwiseComplete(call.reading))
          => /\ ~call.result.raised
             /\ call.result.valid
             /\ \A i \in 1..Len(call.result.errors) :
                   TraversalStep(call.result.errors[i]) # 5

C10_Witness ==
    /\ Scraped /\ call.page.ok /\ ~HasSecondHeading(call.page.soup)
    /\ call.result # PyNone
    /\ call.result[2]["secondReading"] = PyNone
    /\ OtherwiseComplete(call.result[2])
    /\ IsValid(call.result[2])

\* The text has the word at some position, letter case aside.
Mentions(text, word) ==
    \E i \in 1..(Len(text) - Len(word) + 1) :
        \A k \in 1..Len(word) : LowerChar(text[i + k - 1]) = word[k]

\* C11: the colour is 'white' when a feast day is given and mentions "mary"
\* or "virgin", whatever the season; otherwise 'purple' for Advent and Lent,
\* 'white' for Christmas and Easter, 'green' for Ordinary Time and for any
\* other season.
C11_ColorOfSeasonAndFeast ==
    call.op = "get_liturgical_color" =>
        LET marian == /\ call.feast_day # NoFeast
                      /\ \/ Mentions(call.feast_day, <<"m","a","r","y">>)
                         \/ Mentions(call.feast_day, <<"v","i","r","g","i","n">>)
        IN call.result =
              (IF marian THEN "white"
               ELSE IF call.season \in {"Advent", "Lent"} THEN "purple"
               ELSE IF call.season \in {"Christmas", "Easter"} THEN "white"
               ELSE "green")

C11_Witness ==
    /\ call.op = "get_liturgical_color"
    /\ call.season = "Lent"
    /\ call.feast_day = FeastBlessedVirginMary
    /\ call.result = "white"

\* The seasons in the order their keywords are tried.
SeasonKeywords ==
    << [season |-> "Advent", words |-> {<<"a","d","v","e","n","t">>}],
       [season |-> "Christmas", words |-> {<<"c","h","r","i","s","t","m","a","s">>}],
       [season |-> "Lent", words |-> {<<"l","e","n","t">>, <<"a","s","h"," ","w","e","d","n","e","s","d","a","y">>}],
       [season |-> "Easter", words |-> {<<"e","a","s","t","e","r">>}],
       [season |-> "Ordinary Time", words |-> {<<"o","r","d","i","n","a","r","y"," ","t","i","m","e">>}] >>

\* The season of each month, January to December.
MonthTable ==
    <<"Christmas", "Lent", "Lent", "Easter", "Ordinary Time", "Ordinary Time",
      "Ordinary Time", "Ordinary Time", "Ordinary Time", "Ordinary Time",
      "Advent", "Advent">>

KeywordHits(title) ==
    { i \in 1..Len(SeasonKeywords) :
        \E w \in SeasonKeywords[i].words : Mentions(title, w) }

\* C12: the season is that of the first keyword, in the order Advent,
\* Christmas, Lent (or "ash wednesday"), Easter, Ordinary Time, the title
\* contains, whatever the month; without keyword it is the month's season;
\* it is always one of the five seasons.
C12_SeasonByKeywordThenMonth ==
    call.op = "determine_season" =>
        LET hits == KeywordHits(call.title) IN
        /\ hits # {} =>
              call.result = SeasonKeywords[CHOOSE i \in hits : \A j \in hits : i <= j].season
        /\ hits = {} => call.result = MonthTable[call.date.month]
        /\ call.result \in {"Advent", "Christmas", "Lent", "Easter", "Ordinary Time"}

C12_Witness ==
    /\ call.op = "determine_season"
    /\ KeywordHits(call.title) = {}
    /\ call.title # <<>>
    /\ call.date.month = 12
    /\ call.result = "Advent"

Extracted == call.op \in {"_extract_reading", "_extract_psalm"}

\* C13: no section _extract_reading or _extract_psalm returns has the empty
\* string as its text; a section without body text is returned as None.
C13_NoEmptyTextPlaceholder ==
    (Extracted /\ IsDict(call.result)) => call.result[2]["text"] # PyStr("")

\* C13 for _extract_reading alone.
C13_ReadingNeverEmpty ==
    (call.op = "_extract_reading" /\ IsDict(call.result))
        => call.result[2]["text"] # PyStr("")

\* The content-body _extract_psalm reads: the first after the first
\* "Responsorial Psalm" heading.
PsalmBodyAt(soup, i) ==
    \E h \in 1..(i - 1) :
        /\ HeadingWith(soup[h], PatternPsalm)
        /\ \A g \in 1..(h - 1) : ~HeadingWith(soup[g], PatternPsalm)
        /\ IsContentBody(soup[i])
        /\ \A j \in (h + 1)..(i - 1) : ~IsContentBody(soup[j])

\* The paragraph begins with "R." or with the response glyph and a period.
Marked(t) == Len(t) >= 2 /\ t[1] \in {"R", ResponseGlyph} /\ t[2] = "."

\* The response and the text the rule gives for the paragraphs of a section.
ResponseRuleHolds(paras, section) ==
    LET texts == [i \in 1..Len(paras) |-> NormalizedParagraph(paras[i])]
        marked == { i \in 1..Len(texts) : Marked(texts[i]) }
        kept == SelectSeq(texts, LAMBDA t : Len(t) > 0)
    IN /\ marked = {} => section["response"] = PyStr("")
       /\ marked # {} =>
             section["response"]
                = PyStr(ToStr(texts[CHOOSE i \in marked : \A j \in marked : i <= j]))
       /\ section["text"] = PyStr(ToStr(Join(kept, ParagraphSeparator)))

\* C14: the psalm's response is its first paragraph that begins with a
\* response marker, the empty string without such a paragraph, and its text
\* is every non-empty paragraph, the marked ones included, in document order.
C14_ResponseIsFirstMarked ==
    (call.op = "_extract_psalm" /\ IsDict(call.result)) =>
        \E i \in 1..Len(call.soup) :
            /\ PsalmBodyAt(call.soup, i)
            /\ ResponseRuleHolds(call.soup[i].paras, call.result[2])

C14_Witness ==
    /\ call.op = "_extract_psalm" /\ IsDict(call.result)
    /\ \E i \in 1..Len(call.soup) :
          /\ PsalmBodyAt(call.soup, i)
          /\ Len(call.soup[i].paras) = 2
          /\ Marked(NormalizedParagraph(call.soup[i].paras[1]))
          /\ Marked(NormalizedParagraph(call.soup[i].paras[2]))
          /\ call.soup[i].paras[1] # call.soup[i].paras[2]
          /\ call.result[2]["response"]
                = PyStr(ToStr(NormalizedParagraph(call.soup[i].paras[1])))

\* The first content-body of the page.
FirstBodyAt(soup, i) ==
    IsContentBody(soup[i]) /\ \A j \in 1..(i - 1) : ~IsContentBody(soup[j])

HasGospelHeading(soup) == \E h \in 1..Len(soup) : HeadingWith(soup[h], PatternGospel)

\* The content-body that follows the first "Gospel" heading; without such a
\* heading the last content-body of the page.
GospelBodyAt(soup, i) ==
    IF HasGospelHeading(soup)
       THEN \E h \in 1..(i - 1) :
               /\ HeadingWith(soup[h], PatternGospel)
               /\ \A g \in 1..(h - 1) : ~HeadingWith(soup[g], PatternGospel)
               /\ IsContentBody(soup[i])
               /\ \A j \in (h + 1)..(i - 1) : ~IsContentBody(soup[j])
       ELSE IsContentBody(soup[i]) /\ \A j \in (i + 1)..Len(soup) : ~IsContentBody(soup[j])

\* The result is the section read from the element of `at`, None when there
\* is no such element or it has no readable text.
TakenFrom(result, soup, at) ==
    IF at = {} THEN result = PyNone
    ELSE \A i \in at :
            IF HasReadableText(soup[i])
               THEN /\ IsDict(result)
                    /\ result[2]["text"]
                          = PyStr(ToStr(Join(TextParts(soup[i].paras), ParagraphSeparator)))
               ELSE result = PyNone

ContentBodies(soup) == { i \in 1..Len(soup) : IsContentBody(soup[i]) }

\* C15: the first reading is read from the first content-body of the page;
\* the gospel from the content-body that follows a "Gospel" heading, and
\* without such a heading from the last content-body; so on a page without
\* "Gospel" heading and with one content-body both have the same text.
C15_SectionSelection ==
    /\ (call.op = "_extract_reading" /\ call.reading_type = "first")
          => TakenFrom(call.result, call.soup,
                       { i \in 1..Len(call.soup) : FirstBodyAt(call.soup, i) })
    /\ (call.op = "_extract_reading" /\ call.reading_type = "gospel")
          => TakenFrom(call.result, call.soup,
                       { i \in 1..Len(call.soup) : GospelBodyAt(call.soup, i) })
    /\ (Scraped /\ call.page.ok /\ call.result # PyNone
          /\ ~HasGospelHeading(call.page.soup)
          /\ Cardinality(ContentBodies(call.page.soup)) = 1)
          => call.result[2]["firstReading"][2]["text"] = call.result[2]["gospel"][2]["text"]

C15_Witness ==
    /\ call.op = "_extract_reading" /\ call.reading_type = "gospel"
    /\ ~HasGospelHeading(call.soup)
    /\ Cardinality(ContentBodies(call.soup)) = 2
    /\ \E i \in ContentBodies(call.soup) :
          /\ GospelBodyAt(call.soup, i) /\ ~FirstBodyAt(call.soup, i)
          /\ HasReadableText(call.soup[i])
    /\ IsDict(call.result)

\* What a caller of calculate_checksum has of a call on the record: the form
\* of the string returned and the log records of the call.
Observed(checksum, log) == [digest |-> DigestForm(checksum), log |-> log]

\* C16: a checksum of the fallback path can be told from a checksum of the
\* canonical path by what the caller has of the call, a flag or a log record.
C16_DegradedChecksumIsObservable ==
    (call.op = "calculate_checksum" /\ ~Serializable(call.reading)) =>
        \A r \in RecordsWithin(MaxDrift) :
            Serializable(r) =>
                Observed(calculate_checksum(r), ChecksumLog(r))
                    # Observed(call.result, call.log)

\* C17: the record manual_scrape writes to the store is the record it
\* computed the checksum over, every field, metadata included, unchanged
\* between calculate_checksum and the write.
C17_StoredIsChecksummed ==
    call.op = "manual_scrape" =>
        \A i \in 1..Len(call.writes) :
            /\ call.checksummed # <<>>
            /\ call.writes[i].doc = call.checksummed[1]

\* C17 for the content fields: they are as they were when the checksum was
\* computed, and the stored checksum is that of the stored record.
C17_ContentUnchangedAfterChecksum ==
    call.op = "manual_scrape" =>
        \A i \in 1..Len(call.writes) :
            /\ call.checksummed # <<>>
            /\ \A k \in RecordKeys \ {"metadata"} :
                  Get(call.writes[i].doc, k) = Get(call.checksummed[1], k)
            /\ call.writes[i].doc["metadata"][2]["checksum"]
                  = calculate_checksum(call.checksummed[1])
            /\ verify_checksum(call.writes[i].doc,
                               call.writes[i].doc["metadata"][2]["checksum"])

====
